---- MODULE Spec2Model ----
(***************************************************************************)
(* A model of the generic quantity framework of the measurements crate:    *)
(* the Measurement trait (src/src/measurement.rs), the cross-quantity      *)
(* algebra generated by impl_maths! (src/src/lib.rs) and the TorqueEnergy  *)
(* bridging type (src/src/torque_energy.rs).                               *)
(*                                                                         *)
(* The scalar type T: num_traits::Float is modelled by extended rationals: *)
(* a pair <<n, d>> in lowest terms with d >= 0, where <<1, 0>> and         *)
(* <<-1, 0>> are the two infinities and <<0, 0>> is NaN.  Arithmetic is    *)
(* exact: the rounding of a particular float width is not modelled.        *)
(***************************************************************************)
EXTENDS Integers, Sequences, FiniteSets, TLC

VARIABLES
    measurement,  \* pick_appropriate_units: self.as_base_units()
    list,         \* pick_appropriate_units: the `list` argument
    idx,          \* position of list.iter().rev(): entries idx..1 are still to visit
    pc,           \* "loop" | "returned" | "panicked" | "idle"
    ret,          \* the returned (unit, value) pair, or NoRet
    x,            \* algebra: first input quantity
    y,            \* algebra: second input quantity
    acc,          \* algebra: value of the expression evaluated so far
    trace,        \* algebra: the operators applied so far, outermost last
    val,          \* from_str: the `val` argument, a sequence of characters
    parsed        \* from_str: the Result returned, or NoParse

vars == <<measurement, list, idx, pc, ret, x, y, acc, trace, val, parsed>>

pickVars == <<measurement, list, idx, pc, ret>>

algVars == <<x, y, acc, trace>>

strVars == <<val, parsed>>

-----------------------------------------------------------------------------
(* Bounds of the model.                                                    *)

\* pick_appropriate_units is tried on base values within MaxOff thousandths
\* of each scale boundary.
MaxOff == 1

\* Numerators and denominators of the operand values of the algebra.
MaxNum == 1

MaxDen == 1

\* Whole seconds of the Duration operands.
MaxSecs == 1

\* Operators applied in one expression.
MaxOps == 3

-----------------------------------------------------------------------------
(* The scalar type T.                                                      *)

Abs(n) == IF n < 0 THEN -n ELSE n

RECURSIVE GCD(_, _)
GCD(a, b) == IF b = 0 THEN a ELSE GCD(b, a % b)

\* The value n/d in lowest terms; d = 0 gives an infinity or NaN.
Norm(n, d) ==
    IF n = 0 /\ d = 0 THEN <<0, 0>>
    ELSE LET g == GCD(Abs(n), Abs(d))
             s == IF d < 0 THEN -1 ELSE 1
         IN  <<(s * n) \div g, (s * d) \div g>>

NaN == <<0, 0>>

Zero == <<0, 1>>

One == <<1, 1>>

MinusOne == <<-1, 1>>

IsNaN(a) == a = NaN

IsFinite(a) == a[2] # 0

\* The common factor of n and d that a product cancels before multiplying.
Cancel(n, d) ==
    LET g == GCD(Abs(n), Abs(d))
    IN  IF g = 0 THEN 1 ELSE g

FMul(a, b) ==
    LET g == Cancel(a[1], b[2])
        h == Cancel(b[1], a[2])
    IN  Norm((a[1] \div g) * (b[1] \div h), (a[2] \div h) * (b[2] \div g))

FDiv(a, b) ==
    LET g == Cancel(a[1], b[1])
        h == Cancel(b[2], a[2])
    IN  Norm((a[1] \div g) * (b[2] \div h), (a[2] \div h) * (b[1] \div g))

FAdd(a, b) ==
    IF a[2] = 0 /\ b[2] = 0
    THEN (IF a = b THEN a ELSE NaN)
    ELSE Norm(a[1] * b[2] + b[1] * a[2], a[2] * b[2])

FNeg(a) == <<-a[1], a[2]>>

\* The comparisons of T: false as soon as an operand is NaN.
FEq(a, b) == ~IsNaN(a) /\ ~IsNaN(b) /\ a = b

FLe(a, b) ==
    /\ ~IsNaN(a)
    /\ ~IsNaN(b)
    /\ IF a[2] = 0 /\ b[2] = 0
       THEN a[1] <= b[1]
       ELSE a[1] * b[2] <= b[1] * a[2]

FGe(a, b) == FLe(b, a)

FLt(a, b) == FLe(a, b) /\ ~FEq(a, b)

FAbs(a) == <<Abs(a[1]), a[2]>>

FSub(a, b) == FAdd(a, FNeg(b))

\* The significant bits of T, for the narrowest float the crate is generic
\* over (f32).
MantissaBits == 24

RECURSIVE Pow2(_)
Pow2(k) == IF k = 0 THEN 1 ELSE 2 * Pow2(k - 1)

\* The spacing of the values of T around the integer n >= 0.
RECURSIVE Ulp(_, _)
Ulp(n, u) == IF n \div u < Pow2(MantissaBits) THEN u ELSE Ulp(n, 2 * u)

\* `n as T` and `T::from(n)` for an unsigned integer n: the nearest value of
\* T, a tie going to the even mantissa.
CastT(n) ==
    LET u == Ulp(n, 1)
        q == n \div u
        r == n % u
    IN  IF 2 * r < u \/ (2 * r = u /\ q % 2 = 0)
        THEN q * u
        ELSE (q + 1) * u

-----------------------------------------------------------------------------
(* Quantity values.  A quantity is a record of its type and of its single  *)
(* field, the scalar in base units; a time::Duration is its whole seconds  *)
(* and its nanoseconds below one second.                                    *)

NoValue == [type |-> "None", base |-> NaN]

\* No Result yet.
NoParse == [ok |-> FALSE, value |-> NoValue]

NANOS_PER_SEC == 1000000000

\* A bare T, as the operand of a scaling or the result of a ratio.
Scalar(units) == [type |-> "Scalar", base |-> units]

\* `Torque { newton_metres }`, src/src/torque.rs:32-34.
Torque_from_newton_metres(newton_metres) ==
    [type |-> "Torque", base |-> newton_metres]

\* Energy::from_joules: the energy module stores joules.
Energy_from_joules(joules) == [type |-> "Energy", base |-> joules]

\* `TorqueEnergy { newton_metres: units }`
TorqueEnergy_from_base_units(units) == [type |-> "TorqueEnergy", base |-> units]

\* from_base_units of the quantity modules that wrap one scalar.
Quantity_from_base_units(ty, units) == [type |-> ty, base |-> units]

\* `as u64` and `as u32` of a float: truncation toward zero, saturating at 0
\* for a negative value and for NaN.  The quotient and the remainder are
\* those of n/d for a finite non-negative n/d.
TruncSecs(units) ==
    IF IsNaN(units) \/ units[1] <= 0 THEN 0 ELSE units[1] \div units[2]

\* floor(r * 10^k / d) for 0 <= r < d, one decimal digit at a time.
RECURSIVE LongDiv(_, _, _, _)
LongDiv(r, d, k, q) ==
    IF k = 0 THEN q
    ELSE LongDiv((r * 10) % d, d, k - 1, q * 10 + ((r * 10) \div d))

\* `((units * 1e9) % 1e9) as u32`: the nanoseconds of the fractional part.
SubsecNanos(units) ==
    IF ~IsFinite(units) \/ units[1] <= 0 THEN 0
    ELSE LET r == units[1] % units[2]
             d == units[2]
         IN  IF NANOS_PER_SEC % d = 0
             THEN r * (NANOS_PER_SEC \div d)
             ELSE LongDiv(r, d, 9, 0)

\* impl Measurement<T> for time::Duration: from_base_units.
Duration_from_base_units(units) ==
    [type |-> "Duration", secs |-> TruncSecs(units), nanos |-> SubsecNanos(units)]

\* impl Measurement<T> for time::Duration: as_base_units,
\* `self.as_secs() as T + (T::from(self.subsec_nanos()) * 1e-9)`.
Duration_as_base_units(d) ==
    FAdd(<<CastT(d.secs), 1>>,
         FMul(<<CastT(d.nanos), 1>>, Norm(1, NANOS_PER_SEC)))

-----------------------------------------------------------------------------
(* Temperature and TemperatureDelta, src/src/temperature.rs; Humidity,     *)
(* src/src/humidity.rs; Angle, src/src/angle.rs; the units of Torque.      *)

\* The literals of temperature.rs: 273.15, 1.8, 32.0 and 491.67.
KelvinOffset == Norm(27315, 100)

FahrenheitScale == Norm(18, 10)

FahrenheitOffset == Norm(32, 1)

RankineOffset == Norm(49167, 100)

\* `Temperature { degrees_kelvin }`
Temperature_from_kelvin(degrees_kelvin) ==
    [type |-> "Temperature", base |-> degrees_kelvin]

Temperature_from_celsius_NoOffset(degrees_celsius) ==
    Temperature_from_kelvin(degrees_celsius)

Temperature_from_celsius(degrees_celsius) ==
    Temperature_from_kelvin(FAdd(degrees_celsius, KelvinOffset))

Temperature_from_fahrenheit(degrees_fahrenheit) ==
    Temperature_from_kelvin(
        FAdd(FDiv(FSub(degrees_fahrenheit, FahrenheitOffset), FahrenheitScale),
             KelvinOffset))

Temperature_from_rankine(degrees_rankine) ==
    Temperature_from_kelvin(
        FAdd(FDiv(FSub(degrees_rankine, RankineOffset), FahrenheitScale),
             KelvinOffset))

Temperature_as_kelvin(t) == t.base

Temperature_as_celsius(t) == FSub(t.base, KelvinOffset)

Temperature_as_fahrenheit_NoOffset(t) ==
    FMul(FSub(t.base, KelvinOffset), FahrenheitScale)

Temperature_as_fahrenheit(t) ==
    FAdd(FMul(FSub(t.base, KelvinOffset), FahrenheitScale), FahrenheitOffset)

Temperature_as_rankine(t) ==
    FAdd(FMul(FSub(t.base, KelvinOffset), FahrenheitScale), RankineOffset)

\* `TemperatureDelta { kelvin_degrees }`
TemperatureDelta_from_kelvin(kelvin_degrees) ==
    [type |-> "TemperatureDelta", base |-> kelvin_degrees]

TemperatureDelta_from_celsius(celsius_degrees) ==
    TemperatureDelta_from_kelvin(celsius_degrees)

TemperatureDelta_from_fahrenheit_Affine(farenheit_degrees) ==
    TemperatureDelta_from_kelvin(
        FDiv(FSub(farenheit_degrees, FahrenheitOffset), FahrenheitScale))

TemperatureDelta_from_fahrenheit(farenheit_degrees) ==
    TemperatureDelta_from_kelvin(FDiv(farenheit_degrees, FahrenheitScale))

TemperatureDelta_from_rankine(rankine_degrees) ==
    TemperatureDelta_from_kelvin(FDiv(rankine_degrees, FahrenheitScale))

TemperatureDelta_as_kelvin(d) == d.base

TemperatureDelta_as_celsius(d) == d.base

TemperatureDelta_as_fahrenheit(d) == FMul(d.base, FahrenheitScale)

TemperatureDelta_as_rankine(d) == FMul(d.base, FahrenheitScale)

\* `Humidity { relative_humidity }`, a percentage.
Humidity_from_percent(percent) == [type |-> "Humidity", base |-> percent]

Humidity_from_ratio(relative_humidity) ==
    [type |-> "Humidity", base |-> FMul(relative_humidity, Norm(100, 1))]

Humidity_as_ratio(h) == FDiv(h.base, Norm(100, 1))

Humidity_as_percent(h) == h.base

\* `Angle { radians }`
Angle_from_radians(radians) == [type |-> "Angle", base |-> radians]

Angle_as_radians(a) == a.base

\* NEWTON_METRE_POUND_FOOT_FACTOR = 0.73756326522588, of which the model's
\* integers hold the first four digits.
NEWTON_METRE_POUND_FOOT_FACTOR == Norm(7376, 10000)

Torque_from_pound_foot(pound_foot) ==
    Torque_from_newton_metres(FDiv(pound_foot, NEWTON_METRE_POUND_FOOT_FACTOR))

Torque_as_newton_metres(t) == t.base

Torque_as_pound_foot(t) == FMul(t.base, NEWTON_METRE_POUND_FOOT_FACTOR)

from_base_units(ty, units) ==
    CASE ty = "Duration" -> Duration_from_base_units(units)
      [] ty = "Torque" -> Torque_from_newton_metres(units)
      [] ty = "TorqueEnergy" -> TorqueEnergy_from_base_units(units)
      [] ty = "Temperature" -> Temperature_from_kelvin(units)
      [] ty = "TemperatureDelta" -> TemperatureDelta_from_kelvin(units)
      [] ty = "Humidity" -> Humidity_from_percent(units)
      [] ty = "Angle" -> Angle_from_radians(units)
      [] OTHER -> Quantity_from_base_units(ty, units)

as_base_units(v) ==
    IF v.type = "Duration" THEN Duration_as_base_units(v) ELSE v.base

-----------------------------------------------------------------------------
(* Measurement::pick_appropriate_units, src/src/measurement.rs:68-76.      *)

NoRet == <<"", NaN>>

\* The unit entries the tables are built from: (name, scale relative to the
\* base unit), the base unit being the kilogram as in tests/pick_appropriate.rs.
UnitEntries ==
    { [unit |-> "g", scale |-> Norm(1, 1000)],
      [unit |-> "kg", scale |-> One],
      [unit |-> "t", scale |-> Norm(1000, 1)] }

\* Every list without a repeated unit, the empty list and the unsorted ones
\* included.
Tables ==
    { t \in UNION { [1..n -> UnitEntries] : n \in 0..Cardinality(UnitEntries) } :
        \A i, j \in DOMAIN t : i # j => t[i] # t[j] }

\* Base values, in thousandths: around 0 and around each scale boundary.
PickValues ==
    { Norm(s * (b + o), 1000) :
        s \in {-1, 1}, b \in {0, 1, 1000, 1000000}, o \in (-MaxOff)..MaxOff }

\* `value >= 1.0 || value <= -1.0`
QualifiesStrict(value) == FLt(One, value) \/ FLt(value, MinusOne)

Qualifies_PositiveOnly(value) == FGe(value, One)

Qualifies(value) == FGe(value, One) \/ FLe(value, MinusOne)

\* `self.as_base_units() / scale`
Scaled_Multiplied(base, scale) == FMul(base, scale)

Scaled(base, scale) == FDiv(base, scale)

InitPick ==
    /\ measurement \in PickValues
    /\ list \in Tables
    /\ idx = Len(list)
    /\ pc = "loop"
    /\ ret = NoRet
    /\ x = NoValue /\ y = NoValue /\ acc = NoValue /\ trace = <<>>
    /\ val = <<>> /\ parsed = NoParse

\* One iteration of `for &(unit, ref scale) in list.iter().rev()` that
\* returns from the function.
PickReturn ==
    /\ pc = "loop"
    /\ idx >= 1
    /\ LET value == Scaled(measurement, list[idx].scale)
       IN  /\ Qualifies(value)
           /\ ret' = <<list[idx].unit, value>>
    /\ pc' = "returned"
    /\ UNCHANGED <<measurement, list, idx, algVars, strVars>>

\* One iteration that goes on to the next smaller entry.
PickNext ==
    /\ pc = "loop"
    /\ idx >= 1
    /\ ~Qualifies(Scaled(measurement, list[idx].scale))
    /\ idx' = idx - 1
    /\ UNCHANGED <<measurement, list, pc, ret, algVars, strVars>>

\* The loop is exhausted: `(list[0].0, self.as_base_units() / list[0].1)`.
\* Rust's list[0] is list[1] here.
FallbackIndexLast(l) == Len(l)

FallbackIndexSecond(l) == 2

FallbackIndex(l) == 1

\* The bounds check of slice indexing.
InBounds(l, i) == i >= 1 /\ i <= Len(l)

PickFallback ==
    /\ pc = "loop"
    /\ idx = 0
    /\ InBounds(list, FallbackIndex(list))
    /\ LET i == FallbackIndex(list)
       IN  ret' = <<list[i].unit, Scaled(measurement, list[i].scale)>>
    /\ pc' = "returned"
    /\ UNCHANGED <<measurement, list, idx, algVars, strVars>>

\* list[0] out of range: the bounds check panics, nothing is returned.
PickPanic ==
    /\ pc = "loop"
    /\ idx = 0
    /\ ~InBounds(list, FallbackIndex(list))
    /\ pc' = "panicked"
    /\ UNCHANGED <<measurement, list, idx, ret, algVars, strVars>>

NextPick == PickReturn \/ PickNext \/ PickFallback \/ PickPanic

SpecPick == InitPick /\ [][NextPick]_vars

-----------------------------------------------------------------------------
(* The operator table: one record per operator impl, as the macros expand. *)

Impl(op, lhs, rhs, out, by) ==
    [op |-> op, lhs |-> lhs, rhs |-> rhs, out |-> out, by |-> by]

\* impl_maths!($a, $b), src/src/lib.rs:113-135.
impl_maths2(a, b) ==
    { Impl("Mul", b, b, a, "impl_maths"),
      Impl("Div", a, b, b, "impl_maths") }

\* impl_maths!($a, $b, $c), src/src/lib.rs:137-181.
impl_maths3_OneProduct(a, b, c) ==
    { Impl("Mul", c, b, a, "impl_maths"),
      Impl("Div", a, c, b, "impl_maths"),
      Impl("Div", a, b, c, "impl_maths") }

impl_maths3_DivSameType(a, b, c) ==
    { Impl("Mul", c, b, a, "impl_maths"),
      Impl("Mul", b, c, a, "impl_maths"),
      Impl("Div", a, c, c, "impl_maths"),
      Impl("Div", a, b, b, "impl_maths") }

impl_maths3(a, b, c) ==
    { Impl("Mul", c, b, a, "impl_maths"),
      Impl("Mul", b, c, a, "impl_maths"),
      Impl("Div", a, c, b, "impl_maths"),
      Impl("Div", a, b, c, "impl_maths") }

\* The invocations of impl_maths!, src/src/lib.rs:203-218.
RegistrationsWithEnergy ==
    impl_maths2("Area", "Length")
    \cup impl_maths3("Energy", "Duration", "Power")
    \cup impl_maths3("Force", "Mass", "Acceleration")
    \cup impl_maths3("Force", "Pressure", "Area")
    \cup impl_maths3("Length", "Duration", "Speed")
    \cup impl_maths3("Power", "Force", "Speed")
    \cup impl_maths3("Speed", "Duration", "Acceleration")
    \cup impl_maths3("Volume", "Length", "Area")
    \cup impl_maths3("Power", "AngularVelocity", "Torque")
    \cup impl_maths3("Power", "Voltage", "Current")
    \cup impl_maths3("Voltage", "Resistance", "Current")
    \cup impl_maths3("TorqueEnergy", "Force", "Length")
    \cup impl_maths3("Energy", "Force", "Length")

Registrations ==
    impl_maths2("Area", "Length")
    \cup impl_maths3("Energy", "Duration", "Power")
    \cup impl_maths3("Force", "Mass", "Acceleration")
    \cup impl_maths3("Force", "Pressure", "Area")
    \cup impl_maths3("Length", "Duration", "Speed")
    \cup impl_maths3("Power", "Force", "Speed")
    \cup impl_maths3("Speed", "Duration", "Acceleration")
    \cup impl_maths3("Volume", "Length", "Area")
    \cup impl_maths3("Power", "AngularVelocity", "Torque")
    \cup impl_maths3("Power", "Voltage", "Current")
    \cup impl_maths3("Voltage", "Resistance", "Current")
    \cup impl_maths3("TorqueEnergy", "Force", "Length")

\* The divisions written by hand, src/src/lib.rs:223-253.
ManualDivisionsSwapped ==
    { Impl("Div", "Torque", "Length", "Length", "manual"),
      Impl("Div", "Torque", "Force", "Force", "manual"),
      Impl("Div", "Energy", "Length", "Length", "manual"),
      Impl("Div", "Energy", "Force", "Force", "manual") }

ManualDivisions ==
    { Impl("Div", "Torque", "Length", "Force", "manual"),
      Impl("Div", "Torque", "Force", "Length", "manual"),
      Impl("Div", "Energy", "Length", "Force", "manual"),
      Impl("Div", "Energy", "Force", "Length", "manual") }

\* impl Mul<Duration> for Acceleration and impl Mul<Acceleration> for
\* Duration, src/src/acceleration.rs:44-62.
AccelerationProducts ==
    { Impl("Mul", "Acceleration", "Duration", "Speed", "acceleration"),
      Impl("Mul", "Duration", "Acceleration", "Speed", "acceleration_rev") }

\* implement_measurement! { $t }, src/src/measurement.rs:107-181.
implement_measurement(t) ==
    { Impl("Add", t, t, t, "derived"),
      Impl("Sub", t, t, t, "derived"),
      Impl("Div", t, t, "Scalar", "derived"),
      Impl("Div", t, "Scalar", t, "derived"),
      Impl("Mul", t, "Scalar", t, "derived"),
      Impl("Mul", "Scalar", t, t, "derived_rev"),
      Impl("Eq", t, t, "bool", "derived"),
      Impl("PartialCmp", t, t, "Ordering", "derived") }

\* The quantity types of the algebra on which implement_measurement! is
\* invoked in their module: torque.rs:79 and acceleration.rs:78.
MacroTypesWithBridge == {"Torque", "Acceleration", "TorqueEnergy"}

MacroTypes == {"Torque", "Acceleration"}

DerivedOperators == UNION { implement_measurement(t) : t \in MacroTypes }

OperatorTable ==
    Registrations \cup ManualDivisions \cup AccelerationProducts
    \cup DerivedOperators

\* The two conversions of src/src/torque_energy.rs:18-34.
Torque_from_TorqueEnergy_PoundFoot(t) == Torque_from_pound_foot(t.base)

Torque_from_TorqueEnergy(t) == Torque_from_newton_metres(t.base)

Energy_from_TorqueEnergy(t) == Energy_from_joules(t.base)

\* The types that are an operand or a result of some operator.
QuantityTypes ==
    UNION { {e.lhs, e.rhs, e.out} : e \in OperatorTable }
        \ {"Scalar", "bool", "Ordering"}

-----------------------------------------------------------------------------
(* The body of an operator impl.                                           *)

\* Less, Equal, Greater as -1, 0, 1 and None as NaN.
PartialCmpOf(a, b) ==
    IF IsNaN(a) \/ IsNaN(b) THEN NaN
    ELSE IF a = b THEN Zero
    ELSE IF FLe(a, b) THEN MinusOne ELSE One

Compute_SubReversed(op, a, b) ==
    CASE op = "Mul" -> FMul(a, b)
      [] op = "Div" -> FDiv(a, b)
      [] op = "Add" -> FAdd(a, b)
      [] op = "Sub" -> FAdd(b, FNeg(a))
      [] op = "Eq" -> IF FEq(a, b) THEN One ELSE Zero
      [] op = "PartialCmp" -> PartialCmpOf(a, b)

Compute_DivReversed(op, a, b) ==
    CASE op = "Mul" -> FMul(a, b)
      [] op = "Div" -> FDiv(b, a)
      [] op = "Add" -> FAdd(a, b)
      [] op = "Sub" -> FAdd(a, FNeg(b))
      [] op = "Eq" -> IF FEq(a, b) THEN One ELSE Zero
      [] op = "PartialCmp" -> PartialCmpOf(a, b)

Compute_MulLeft(op, a, b) ==
    CASE op = "Mul" -> a
      [] op = "Div" -> FDiv(a, b)
      [] op = "Add" -> FAdd(a, b)
      [] op = "Sub" -> FAdd(a, FNeg(b))
      [] op = "Eq" -> IF FEq(a, b) THEN One ELSE Zero
      [] op = "PartialCmp" -> PartialCmpOf(a, b)

Compute(op, a, b) ==
    CASE op = "Mul" -> FMul(a, b)
      [] op = "Div" -> FDiv(a, b)
      [] op = "Add" -> FAdd(a, b)
      [] op = "Sub" -> FAdd(a, FNeg(b))
      [] op = "Eq" -> IF FEq(a, b) THEN One ELSE Zero
      [] op = "PartialCmp" -> PartialCmpOf(a, b)

\* `Self::Output::from_base_units(self.as_base_units() <op> rhs.as_base_units())`;
\* the two reversed impls are `rhs * self`.
\* The result of the impl e on the operands l and r: a quantity built by
\* from_base_units, or the bare T, bool or Option<Ordering> it returns.
Output(ty, units) ==
    IF ty \in {"Scalar", "bool", "Ordering"}
    THEN [type |-> ty, base |-> units]
    ELSE from_base_units(ty, units)

Apply(e, l, r) ==
    IF e.by \in {"derived_rev", "acceleration_rev"}
    THEN Output(e.out, Compute(e.op, as_base_units(r), as_base_units(l)))
    ELSE Output(e.out, Compute(e.op, as_base_units(l), as_base_units(r)))

-----------------------------------------------------------------------------
(* Expressions over two input quantities x and y: acc starts as x, and     *)
(* each step applies one operator impl to acc and one of the inputs.       *)

\* The values the scalar operands are drawn from, those of the documented
\* scenarios (10 m/s for 5 s, 10 N along 2 m) included.
ScenarioValues == { Norm(2, 1), Norm(10, 1) }

Scalars ==
    { Norm(n, d) : n \in (-MaxNum)..MaxNum, d \in 1..MaxDen } \cup ScenarioValues

Durations ==
    { [type |-> "Duration", secs |-> s, nanos |-> n] :
        s \in 0..MaxSecs, n \in {0, NANOS_PER_SEC \div 2} }
    \cup { [type |-> "Duration", secs |-> 5, nanos |-> 0] }

InputValues ==
    { from_base_units(t, u) : t \in QuantityTypes \ {"Duration"}, u \in Scalars }
    \cup { Scalar(u) : u \in Scalars }
    \cup Durations

\* Some operator takes the two types as its operands, in one order or the
\* other.
Related(s, t) ==
    \E e \in OperatorTable :
        \/ e.lhs = s /\ e.rhs = t
        \/ e.lhs = t /\ e.rhs = s

InitAlgebra ==
    /\ x \in InputValues
    /\ y \in InputValues
    /\ Related(x.type, y.type)
    /\ acc = x
    /\ trace = <<>>
    /\ measurement = Zero /\ list = <<>> /\ idx = 0 /\ pc = "idle" /\ ret = NoRet
    /\ val = <<>> /\ parsed = NoParse

\* The model's integers hold the operand: a Duration operand is a multiple
\* of 1/DenCap seconds.
DenCap == 1000

OperandOk(v) ==
    v.type = "Duration" =>
        NANOS_PER_SEC \div GCD(v.nanos, NANOS_PER_SEC) <= DenCap

\* The model's integers hold the result: `as u64` of +infinity is u64::MAX.
ResultOk(e, l, r) ==
    e.out = "Duration" =>
        Compute(e.op, as_base_units(l), as_base_units(r)) # <<1, 0>>

\* The operator impl e applied to acc and the input v, with acc as its
\* left operand or as its right one.
Step(e, v, accLeft) ==
    LET l == IF accLeft THEN acc ELSE v
        r == IF accLeft THEN v ELSE acc
    IN  /\ pc = "idle"
        /\ Len(trace) < MaxOps
        /\ e.lhs = l.type
        /\ e.rhs = r.type
        /\ OperandOk(l)
        /\ OperandOk(r)
        /\ ResultOk(e, l, r)
        /\ acc' = Apply(e, l, r)
        /\ trace' = Append(trace,
              [op |-> e.op, by |-> e.by, lhs |-> l, rhs |-> r,
               res |-> Apply(e, l, r)])
        /\ UNCHANGED <<x, y, pickVars, strVars>>

Only(op) == { e \in DerivedOperators : e.op = op }

\* B * C and C * B of impl_maths!.
CrossMul ==
    \E e \in { f \in Registrations : f.op = "Mul" }, v \in {x, y}, accLeft \in BOOLEAN :
        Step(e, v, accLeft)

\* A / B and A / C of impl_maths!.
CrossDiv ==
    \E e \in { f \in Registrations : f.op = "Div" }, v \in {x, y}, accLeft \in BOOLEAN :
        Step(e, v, accLeft)

\* Torque / Length, Torque / Force, Energy / Length, Energy / Force.
ManualDiv ==
    \E e \in ManualDivisions, v \in {x, y}, accLeft \in BOOLEAN :
        Step(e, v, accLeft)

\* Acceleration * Duration and Duration * Acceleration of acceleration.rs.
AccelerationMul ==
    \E e \in AccelerationProducts, v \in {x, y}, accLeft \in BOOLEAN :
        Step(e, v, accLeft)

DerivedAdd ==
    \E e \in Only("Add"), v \in {x, y}, accLeft \in BOOLEAN :
        Step(e, v, accLeft)

DerivedSub ==
    \E e \in Only("Sub"), v \in {x, y}, accLeft \in BOOLEAN :
        Step(e, v, accLeft)

DerivedRatio ==
    \E e \in { f \in Only("Div") : f.out = "Scalar" }, v \in {x, y}, accLeft \in BOOLEAN :
        Step(e, v, accLeft)

DerivedScaleDiv ==
    \E e \in { f \in Only("Div") : f.rhs = "Scalar" }, v \in {x, y}, accLeft \in BOOLEAN :
        Step(e, v, accLeft)

DerivedScaleMul ==
    \E e \in { f \in Only("Mul") : f.rhs = "Scalar" }, v \in {x, y}, accLeft \in BOOLEAN :
        Step(e, v, accLeft)

DerivedScalarMul ==
    \E e \in { f \in Only("Mul") : f.lhs = "Scalar" }, v \in {x, y}, accLeft \in BOOLEAN :
        Step(e, v, accLeft)

DerivedEq ==
    \E e \in Only("Eq"), v \in {x, y}, accLeft \in BOOLEAN :
        Step(e, v, accLeft)

DerivedPartialCmp ==
    \E e \in Only("PartialCmp"), v \in {x, y}, accLeft \in BOOLEAN :
        Step(e, v, accLeft)

Convert(op, res) ==
    /\ pc = "idle"
    /\ Len(trace) < MaxOps
    /\ acc.type = "TorqueEnergy"
    /\ acc' = res
    /\ trace' = Append(trace,
          [op |-> op, by |-> "from", lhs |-> acc, rhs |-> NoValue, res |-> res])
    /\ UNCHANGED <<x, y, pickVars, strVars>>

\* impl From<TorqueEnergy<T>> for Torque<T>
IntoTorque == Convert("IntoTorque", Torque_from_TorqueEnergy(acc))

\* impl From<TorqueEnergy<T>> for Energy<T>
IntoEnergy == Convert("IntoEnergy", Energy_from_TorqueEnergy(acc))

NextAlgebra ==
    \/ CrossMul
    \/ CrossDiv
    \/ ManualDiv
    \/ AccelerationMul
    \/ DerivedAdd
    \/ DerivedSub
    \/ DerivedRatio
    \/ DerivedScaleDiv
    \/ DerivedScaleMul
    \/ DerivedScalarMul
    \/ DerivedEq
    \/ DerivedPartialCmp
    \/ IntoTorque
    \/ IntoEnergy

SpecAlgebra == InitAlgebra /\ [][NextAlgebra]_vars

-----------------------------------------------------------------------------
(* Properties of the cross-quantity algebra.                               *)

\* `==` of two quantities: the same type and equal base values.
QEq(a, b) == a.type = b.type /\ FEq(as_base_units(a), as_base_units(b))

NonZero(v) == IsFinite(as_base_units(v)) /\ as_base_units(v) # Zero

IsForceLength(t) == {t.lhs.type, t.rhs.type} = {"Force", "Length"}

HasBridgeOperand(s, t) == s = "TorqueEnergy" \/ t = "TorqueEnergy"

\* C4: every operator of a registered relation A = B x C returns the value
\* whose base-unit value is exactly the product (B * C, C * B) or, for a
\* nonzero divisor, the quotient (A / B, A / C) of the operands' base-unit
\* values, the relations whose result is a Duration included.
C4_ExactBaseValue ==
    \A i \in DOMAIN trace :
        LET t == trace[i]
        IN  t.by = "impl_maths" =>
                /\ t.op = "Mul" =>
                      as_base_units(t.res)
                          = FMul(as_base_units(t.lhs), as_base_units(t.rhs))
                /\ (t.op = "Div" /\ NonZero(t.rhs)) =>
                      as_base_units(t.res)
                          = FDiv(as_base_units(t.lhs), as_base_units(t.rhs))

C6_ProductCommutes ==
    \A i \in DOMAIN trace :
        LET t == trace[i]
        IN  (t.op = "Mul" /\ t.by \in {"impl_maths", "acceleration", "acceleration_rev"}) =>
                /\ \E f \in OperatorTable :
                      f.op = "Mul" /\ f.lhs = t.rhs.type /\ f.rhs = t.lhs.type
                /\ \A f \in OperatorTable :
                      (f.op = "Mul" /\ f.lhs = t.rhs.type /\ f.rhs = t.lhs.type) =>
                          /\ f.out = t.res.type
                          /\ Apply(f, t.rhs, t.lhs) = t.res
                /\ as_base_units(t.res)
                      = FMul(as_base_units(t.lhs), as_base_units(t.rhs))

C6_Witness ==
    /\ Len(trace) = 1
    /\ trace[1].op = "Mul"
    /\ trace[1].lhs.type = "Duration" /\ trace[1].rhs.type = "Acceleration"
    /\ trace[1].by = "impl_maths"
    /\ acc.type = "Speed" /\ acc.base = Norm(-5, 1)

\* No two impls of the table take the same operand types for the same
\* operator and differ in their result type.
TableIsFunctional ==
    \A e, f \in OperatorTable :
        (e.op = f.op /\ e.lhs = f.lhs /\ e.rhs = f.rhs) => e.out = f.out

\* C7: the only multiplication of a Force and a Length, in either order,
\* returns a TorqueEnergy, never a Torque or an Energy; and every (operator,
\* left type, right type) of the operator table has one result type.
C7_ForceLengthIsBridge ==
    /\ \A i \in DOMAIN trace :
          LET t == trace[i]
          IN  /\ (t.op = "Mul" /\ IsForceLength(t)) => t.res.type = "TorqueEnergy"
              /\ t.by # "from" =>
                    \A e \in OperatorTable :
                        (e.op = t.op /\ e.lhs = t.lhs.type /\ e.rhs = t.rhs.type) =>
                            e.out = t.res.type
    /\ TableIsFunctional

C7_Witness ==
    /\ Len(trace) = 1
    /\ trace[1].op = "Mul"
    /\ trace[1].lhs.type = "Length" /\ trace[1].rhs.type = "Force"
    /\ acc.type = "TorqueEnergy"

\* C8: converting the TorqueEnergy f * l into Torque gives the Torque of
\* f.base x l.base newton-metres and converting it into Energy the Energy of
\* f.base x l.base joules (10 N x 2 m: 20 Nm and 20 J); both conversions are
\* defined for every TorqueEnergy.
C8_ConversionKeepsValue ==
    /\ Len(trace) >= 2 =>
          LET m == trace[1]
              c == trace[2]
              nm == FMul(as_base_units(m.lhs), as_base_units(m.rhs))
          IN  (m.op = "Mul" /\ IsForceLength(m)) =>
                  /\ c.op = "IntoTorque" => c.res = [type |-> "Torque", base |-> nm]
                  /\ c.op = "IntoEnergy" => c.res = [type |-> "Energy", base |-> nm]
                  /\ ( /\ as_base_units(m.lhs) = Norm(10, 1)
                       /\ as_base_units(m.rhs) = Norm(2, 1)
                       /\ c.by = "from" ) => c.res.base = Norm(20, 1)
    /\ (acc.type = "TorqueEnergy" /\ Len(trace) < MaxOps) =>
          ENABLED IntoTorque /\ ENABLED IntoEnergy

C8_Witness ==
    /\ Len(trace) = 2
    /\ trace[1].op = "Mul"
    /\ trace[1].lhs = [type |-> "Force", base |-> Norm(10, 1)]
    /\ trace[1].rhs = [type |-> "Length", base |-> Norm(2, 1)]
    /\ trace[2].op = "IntoTorque"
    /\ acc = [type |-> "Torque", base |-> Norm(20, 1)]

\* C9: for nonzero f and l, with t the Torque and e the Energy of f * l:
\* t / l == f, t / f == l, e / l == f, e / f == l, and each is what the
\* division of the TorqueEnergy f * l by the same operand returns.
C9_ResolvedInverses ==
    Len(trace) >= 3 =>
        LET m == trace[1]
            c == trace[2]
            d == trace[3]
        IN  ( /\ m.op = "Mul" /\ IsForceLength(m)
              /\ NonZero(m.lhs) /\ NonZero(m.rhs)
              /\ c.by = "from"
              /\ d.op = "Div" /\ d.lhs = c.res
              /\ d.rhs \in {m.lhs, m.rhs} ) =>
                /\ d.rhs = m.lhs => QEq(d.res, m.rhs)
                /\ d.rhs = m.rhs => QEq(d.res, m.lhs)
                /\ \E e \in Registrations :
                      /\ e.op = "Div" /\ e.lhs = "TorqueEnergy" /\ e.rhs = d.rhs.type
                      /\ QEq(Apply(e, m.res, d.rhs), d.res)

C9_Witness ==
    /\ Len(trace) = 3
    /\ trace[1].op = "Mul"
    /\ trace[1].lhs = [type |-> "Force", base |-> Norm(10, 1)]
    /\ trace[1].rhs = [type |-> "Length", base |-> Norm(2, 1)]
    /\ trace[2].op = "IntoEnergy"
    /\ trace[3].op = "Div" /\ trace[3].by = "manual"
    /\ trace[3].rhs = trace[1].rhs
    /\ acc = trace[1].lhs

\* C10, as claimed: no operator other than the conversions into Torque and
\* into Energy has a TorqueEnergy operand.
C10_NoOperatorOnBridge ==
    \A i \in DOMAIN trace :
        HasBridgeOperand(trace[i].lhs.type, trace[i].rhs.type) =>
            trace[i].op \in {"IntoTorque", "IntoEnergy"}

\* C10, amended: the operators with a TorqueEnergy operand are the two
\* conversions and the two divisions impl_maths! generates for it,
\* TorqueEnergy / Force -> Length and TorqueEnergy / Length -> Force; it is
\* the operand of no addition, subtraction, scaling, ratio or comparison.
C10_BridgeOperators ==
    /\ \A i \in DOMAIN trace :
          LET t == trace[i]
          IN  HasBridgeOperand(t.lhs.type, t.rhs.type) =>
                  \/ t.op \in {"IntoTorque", "IntoEnergy"}
                  \/ /\ t.op = "Div" /\ t.by = "impl_maths"
                     /\ t.lhs.type = "TorqueEnergy"
                     /\ <<t.rhs.type, t.res.type>>
                            \in {<<"Force", "Length">>, <<"Length", "Force">>}
    /\ (trace = <<>> /\ x.type = "TorqueEnergy") => y.type \in {"Force", "Length"}

C10_Witness ==
    /\ Len(trace) = 2
    /\ trace[2].op = "Div"
    /\ trace[2].lhs.type = "TorqueEnergy"
    /\ trace[2].rhs.type = "Force"
    /\ acc.type = "Length"

-----------------------------------------------------------------------------
(* Properties of pick_appropriate_units.                                   *)

\* The table of tests/pick_appropriate.rs, reduced to its two entries
\* around the base unit.
GramKilogram ==
    << [unit |-> "g", scale |-> Norm(1, 1000)], [unit |-> "kg", scale |-> One] >>

\* Scales positive and strictly increasing.
SortedPositive(l) ==
    /\ \A i \in DOMAIN l : FLt(Zero, l[i].scale)
    /\ \A i, j \in DOMAIN l : i < j => FLt(l[i].scale, l[j].scale)

\* The entries of l in which v has a magnitude of at least 1.
QualifyingIdx(l, v) ==
    { i \in DOMAIN l : FGe(FAbs(FDiv(v, l[i].scale)), One) }

\* C1: on a non-empty table with positive, strictly increasing scales,
\* pick_appropriate_units returns the qualifying entry of largest scale and
\* the base value divided by that scale; the threshold |value| >= 1 is
\* inclusive and sign-symmetric: in [(g, 1e-3), (kg, 1)] the values 1, -1 and
\* 1.001 select kg unchanged and 0.999 selects g with 999.
C1_LargestQualifying ==
    pc = "returned" =>
        /\ (SortedPositive(list) /\ QualifyingIdx(list, measurement) # {}) =>
              \E i \in QualifyingIdx(list, measurement) :
                  /\ \A j \in QualifyingIdx(list, measurement) :
                        FLe(list[j].scale, list[i].scale)
                  /\ ret = <<list[i].unit, FDiv(measurement, list[i].scale)>>
        /\ list = GramKilogram =>
              /\ measurement = One => ret = <<"kg", One>>
              /\ measurement = MinusOne => ret = <<"kg", MinusOne>>
              /\ measurement = Norm(1001, 1000) => ret = <<"kg", Norm(1001, 1000)>>
              /\ measurement = Norm(999, 1000) => ret = <<"g", Norm(999, 1)>>

C1_Witness ==
    /\ pc = "returned"
    /\ list = GramKilogram
    /\ measurement = MinusOne
    /\ ret = <<"kg", MinusOne>>

\* C2: when no entry of the table gives |base / scale| >= 1 (a base value of
\* zero included), pick_appropriate_units returns the first entry of the
\* table with base / its scale, a value of magnitude below 1.
C2_FallbackSmallest ==
    (pc = "returned" /\ QualifyingIdx(list, measurement) = {}) =>
        /\ ret = <<list[1].unit, FDiv(measurement, list[1].scale)>>
        /\ FLt(FAbs(ret[2]), One)

C2_Witness ==
    /\ pc = "returned"
    /\ Len(list) >= 2
    /\ QualifyingIdx(list, measurement) = {}
    /\ measurement = Zero
    /\ ret = <<list[1].unit, Zero>>

\* C3: pick_appropriate_units never reads outside a table that has an entry:
\* it then returns, with the unit name of one of the entries; the panic of
\* the out-of-range read list[0] happens for the empty table alone, and then
\* nothing is returned.
C3_NoOutOfBounds ==
    /\ pc = "returned" =>
          /\ Len(list) >= 1
          /\ \E i \in DOMAIN list : ret[1] = list[i].unit
    /\ pc = "panicked" => (Len(list) = 0 /\ ret = NoRet)
    /\ (Len(list) = 0 /\ ~ENABLED NextPick) => pc = "panicked"
    /\ (Len(list) >= 1 /\ ~ENABLED NextPick) => pc = "returned"

C3_Witness ==
    /\ pc = "returned"
    /\ Len(list) = 1
    /\ idx = 0
    /\ ret[1] = list[1].unit

-----------------------------------------------------------------------------
(* The operators of the quantity types that are defined in their own       *)
(* module: the hand-written impls of Temperature and Humidity and the      *)
(* impls implement_measurement! derives.                                   *)

\* The operator impls of src/src/temperature.rs:180-241.
TemperatureOperatorsClosed ==
    { Impl("Add", "Temperature", "TemperatureDelta", "Temperature", "temperature"),
      Impl("Add", "TemperatureDelta", "Temperature", "Temperature", "temperature_rev"),
      Impl("Sub", "Temperature", "TemperatureDelta", "Temperature", "temperature"),
      Impl("Sub", "Temperature", "Temperature", "TemperatureDelta", "temperature"),
      Impl("Add", "Temperature", "Temperature", "Temperature", "temperature"),
      Impl("Eq", "Temperature", "Temperature", "bool", "temperature"),
      Impl("PartialCmp", "Temperature", "Temperature", "Ordering", "temperature") }

TemperatureOperators ==
    { Impl("Add", "Temperature", "TemperatureDelta", "Temperature", "temperature"),
      Impl("Add", "TemperatureDelta", "Temperature", "Temperature", "temperature_rev"),
      Impl("Sub", "Temperature", "TemperatureDelta", "Temperature", "temperature"),
      Impl("Sub", "Temperature", "Temperature", "TemperatureDelta", "temperature"),
      Impl("Eq", "Temperature", "Temperature", "bool", "temperature"),
      Impl("PartialCmp", "Temperature", "Temperature", "Ordering", "temperature") }

\* The operator impls of src/src/humidity.rs:175-192.
HumidityOperators ==
    { Impl("Eq", "Humidity", "Humidity", "bool", "humidity"),
      Impl("PartialCmp", "Humidity", "Humidity", "Ordering", "humidity") }

\* The generic quantity types implement_measurement! is invoked on in their
\* module: temperature.rs:276, torque.rs:79 and angle.rs:145.
GenericMacroTypes == {"TemperatureDelta", "Torque", "Angle"}

GenericDerivedOperators ==
    UNION { implement_measurement(t) : t \in GenericMacroTypes }

\* The types with an impl of std::fmt::Display: implement_display! is
\* invoked at temperature.rs:275 and humidity.rs:194, and by
\* implement_measurement! (measurement.rs:111).
DisplayTypes == {"Temperature", "Humidity"} \cup GenericMacroTypes

QuantityOperators ==
    TemperatureOperators \cup HumidityOperators \cup GenericDerivedOperators

\* impl Add<TemperatureDelta<T>> for Temperature<T>
Temperature_add(self, other) ==
    Temperature_from_kelvin(FAdd(self.base, other.base))

\* impl Add<Temperature<T>> for TemperatureDelta<T>: `other + self`
TemperatureDelta_add(self, other) == Temperature_add(other, self)

\* impl Sub<TemperatureDelta<T>> for Temperature<T>
Temperature_sub_delta_Added(self, other) ==
    Temperature_from_kelvin(FAdd(self.base, other.base))

Temperature_sub_delta(self, other) ==
    Temperature_from_kelvin(FSub(self.base, other.base))

\* impl Sub<Temperature<T>> for Temperature<T>
Temperature_sub_AsTemperature(self, other) ==
    Temperature_from_kelvin(FSub(self.base, other.base))

Temperature_sub(self, other) ==
    TemperatureDelta_from_kelvin(FSub(self.base, other.base))

\* impl PartialEq for Temperature<T> and for Humidity<T>
Quantity_eq_Never(self, other) == FALSE

Quantity_eq(self, other) == FEq(as_base_units(self), as_base_units(other))

\* impl PartialOrd for Temperature<T> and for Humidity<T>
Quantity_partial_cmp(self, other) ==
    PartialCmpOf(as_base_units(self), as_base_units(other))

\* The result of the impl e of QuantityOperators on the operands l and r.
ApplyQuantity(e, l, r) ==
    CASE e.by \in {"derived", "derived_rev"} -> Apply(e, l, r)
      [] e.by = "temperature_rev" -> TemperatureDelta_add(l, r)
      [] e.op = "Add" -> Temperature_add(l, r)
      [] e.op = "Sub" /\ e.rhs = "TemperatureDelta" -> Temperature_sub_delta(l, r)
      [] e.op = "Sub" -> Temperature_sub(l, r)
      [] e.op = "Eq" ->
            [type |-> "bool", base |-> IF Quantity_eq(l, r) THEN One ELSE Zero]
      [] e.op = "PartialCmp" ->
            [type |-> "Ordering", base |-> Quantity_partial_cmp(l, r)]

-----------------------------------------------------------------------------
(* Expressions over two input quantities of these types: acc starts as x   *)
(* and each step applies one impl of QuantityOperators to acc and one of   *)
(* the inputs.                                                             *)

\* Operators applied in one expression of this kind.
MaxTerms == 2

\* The numbers the temperatures are built from, those of the tests of
\* temperature.rs (2 K, 100 C, 212 F, 75 C) included.
TemperatureNumbers == { Zero, Norm(2, 1), Norm(75, 1), Norm(100, 1), Norm(212, 1) }

DeltaNumbers == { Zero, Norm(5, 1), Norm(25, 1), Norm(180, 1) }

\* The values of T that are no number.
NonFinite == { NaN, <<1, 0>> }

Temperatures ==
    { Temperature_from_kelvin(n) : n \in TemperatureNumbers \cup NonFinite }
    \cup { Temperature_from_celsius(n) : n \in TemperatureNumbers }
    \cup { Temperature_from_fahrenheit(n) : n \in TemperatureNumbers }
    \cup { Temperature_from_rankine(n) : n \in TemperatureNumbers }

TemperatureDeltas ==
    { TemperatureDelta_from_kelvin(n) : n \in DeltaNumbers \cup NonFinite }
    \cup { TemperatureDelta_from_celsius(n) : n \in DeltaNumbers }
    \cup { TemperatureDelta_from_fahrenheit(n) : n \in DeltaNumbers }
    \cup { TemperatureDelta_from_rankine(n) : n \in DeltaNumbers }

Humidities ==
    { Humidity_from_percent(n) : n \in { Norm(19, 1), Norm(20, 1) } \cup NonFinite }
    \cup { Humidity_from_ratio(n) : n \in { Norm(1, 5), One } }

QuantityInputs ==
    Temperatures \cup TemperatureDeltas \cup Humidities
    \cup { from_base_units(t, u) : t \in {"Torque", "Angle"}, u \in Scalars \cup {NaN} }
    \cup { Scalar(u) : u \in Scalars }

RelatedQuantity(s, t) ==
    \E e \in QuantityOperators :
        \/ e.lhs = s /\ e.rhs = t
        \/ e.lhs = t /\ e.rhs = s

InitQuantity ==
    /\ x \in QuantityInputs
    /\ y \in QuantityInputs
    /\ RelatedQuantity(x.type, y.type)
    /\ acc = x
    /\ trace = <<>>
    /\ measurement = Zero /\ list = <<>> /\ idx = 0 /\ pc = "idle" /\ ret = NoRet
    /\ val = <<>> /\ parsed = NoParse

\* The absolute Temperatures an expression contains, each one that is
\* subtracted counted negative.
Degree(v) == IF v.type = "Temperature" THEN 1 ELSE 0

AccDegree == IF trace = <<>> THEN Degree(x) ELSE trace[Len(trace)].deg

QuantityStep(e, v, accLeft) ==
    LET l == IF accLeft THEN acc ELSE v
        r == IF accLeft THEN v ELSE acc
        dl == IF accLeft THEN AccDegree ELSE Degree(v)
        dr == IF accLeft THEN Degree(v) ELSE AccDegree
    IN  /\ pc = "idle"
        /\ Len(trace) < MaxTerms
        /\ e.lhs = l.type
        /\ e.rhs = r.type
        /\ acc' = ApplyQuantity(e, l, r)
        /\ trace' = Append(trace,
              [op |-> e.op, by |-> e.by, lhs |-> l, rhs |-> r,
               res |-> ApplyQuantity(e, l, r),
               deg |-> IF e.op = "Sub" THEN dl - dr ELSE dl + dr])
        /\ UNCHANGED <<x, y, pickVars, strVars>>

HandWritten(op) ==
    { e \in TemperatureOperators \cup HumidityOperators : e.op = op }

Generic(op) == { e \in GenericDerivedOperators : e.op = op }

\* Temperature + TemperatureDelta and TemperatureDelta + Temperature.
TemperatureAdd ==
    \E e \in HandWritten("Add"), v \in {x, y}, accLeft \in BOOLEAN :
        QuantityStep(e, v, accLeft)

\* Temperature - TemperatureDelta and Temperature - Temperature.
TemperatureSub ==
    \E e \in HandWritten("Sub"), v \in {x, y}, accLeft \in BOOLEAN :
        QuantityStep(e, v, accLeft)

\* `==` of two Temperatures or two Humidities.
HandEq ==
    \E e \in HandWritten("Eq"), v \in {x, y}, accLeft \in BOOLEAN :
        QuantityStep(e, v, accLeft)

\* partial_cmp of two Temperatures or two Humidities.
HandPartialCmp ==
    \E e \in HandWritten("PartialCmp"), v \in {x, y}, accLeft \in BOOLEAN :
        QuantityStep(e, v, accLeft)

GenericAdd ==
    \E e \in Generic("Add"), v \in {x, y}, accLeft \in BOOLEAN :
        QuantityStep(e, v, accLeft)

GenericSub ==
    \E e \in Generic("Sub"), v \in {x, y}, accLeft \in BOOLEAN :
        QuantityStep(e, v, accLeft)

GenericRatio ==
    \E e \in { f \in Generic("Div") : f.out = "Scalar" }, v \in {x, y}, accLeft \in BOOLEAN :
        QuantityStep(e, v, accLeft)

GenericScaleDiv ==
    \E e \in { f \in Generic("Div") : f.rhs = "Scalar" }, v \in {x, y}, accLeft \in BOOLEAN :
        QuantityStep(e, v, accLeft)

GenericScaleMul ==
    \E e \in { f \in Generic("Mul") : f.rhs = "Scalar" }, v \in {x, y}, accLeft \in BOOLEAN :
        QuantityStep(e, v, accLeft)

GenericScalarMul ==
    \E e \in { f \in Generic("Mul") : f.lhs = "Scalar" }, v \in {x, y}, accLeft \in BOOLEAN :
        QuantityStep(e, v, accLeft)

GenericEq ==
    \E e \in Generic("Eq"), v \in {x, y}, accLeft \in BOOLEAN :
        QuantityStep(e, v, accLeft)

GenericPartialCmp ==
    \E e \in Generic("PartialCmp"), v \in {x, y}, accLeft \in BOOLEAN :
        QuantityStep(e, v, accLeft)

NextQuantity ==
    \/ TemperatureAdd
    \/ TemperatureSub
    \/ HandEq
    \/ HandPartialCmp
    \/ GenericAdd
    \/ GenericSub
    \/ GenericRatio
    \/ GenericScaleDiv
    \/ GenericScaleMul
    \/ GenericScalarMul
    \/ GenericEq
    \/ GenericPartialCmp

SpecQuantity == InitQuantity /\ [][NextQuantity]_vars

-----------------------------------------------------------------------------
(* Properties of the Temperature and TemperatureDelta operators.           *)

FiniteOperands(t) == IsFinite(as_base_units(t.lhs)) /\ IsFinite(as_base_units(t.rhs))

IsTemperatureDifference(t) ==
    t.op = "Sub" /\ t.lhs.type = "Temperature" /\ t.rhs.type = "Temperature"

\* C11: subtracting two absolute Temperatures yields a TemperatureDelta,
\* not a Temperature, whose kelvin value is the difference of the operands'
\* kelvin values: Temperature::from_celsius(x) - Temperature::from_celsius(y)
\* == TemperatureDelta::from_celsius(x - y) for all numbers x, y, and
\* 212 F - 75 C is a delta of 25 K.
C11_DifferenceIsDelta ==
    \A i \in DOMAIN trace :
        LET t == trace[i]
        IN  IsTemperatureDifference(t) =>
                /\ t.res.type = "TemperatureDelta"
                /\ TemperatureDelta_as_kelvin(t.res)
                      = FSub(Temperature_as_kelvin(t.lhs), Temperature_as_kelvin(t.rhs))
                /\ \A cx, cy \in TemperatureNumbers :
                      ( /\ t.lhs = Temperature_from_celsius(cx)
                        /\ t.rhs = Temperature_from_celsius(cy) ) =>
                          QEq(t.res, TemperatureDelta_from_celsius(FSub(cx, cy)))
                /\ ( /\ t.lhs = Temperature_from_fahrenheit(Norm(212, 1))
                     /\ t.rhs = Temperature_from_celsius(Norm(75, 1)) ) =>
                          QEq(t.res, TemperatureDelta_from_kelvin(Norm(25, 1)))

C11_Witness ==
    /\ Len(trace) = 1
    /\ IsTemperatureDifference(trace[1])
    /\ trace[1].lhs = Temperature_from_fahrenheit(Norm(212, 1))
    /\ trace[1].rhs = Temperature_from_celsius(Norm(75, 1))
    /\ acc = TemperatureDelta_from_kelvin(Norm(25, 1))

IsTemperatureSum(t) ==
    /\ t.op = "Add"
    /\ {t.lhs.type, t.rhs.type} = {"Temperature", "TemperatureDelta"}

IsTemperatureLessDelta(t) ==
    t.op = "Sub" /\ t.lhs.type = "Temperature" /\ t.rhs.type = "TemperatureDelta"

\* C12: for every Temperature t and TemperatureDelta d, t + d and d + t are
\* both the Temperature of t.kelvin + d.kelvin and are equal, t - d is the
\* Temperature of t.kelvin - d.kelvin, and (t + d) - d == t and
\* (t + d) - t == d.
C12_AffineCombination ==
    /\ \A i \in DOMAIN trace :
          LET t == trace[i]
          IN  /\ IsTemperatureSum(t) =>
                    /\ t.res = Temperature_from_kelvin(FAdd(t.lhs.base, t.rhs.base))
                    /\ \E f \in QuantityOperators :
                          /\ f.op = "Add" /\ f.lhs = t.rhs.type /\ f.rhs = t.lhs.type
                          /\ ApplyQuantity(f, t.rhs, t.lhs) = t.res
                          /\ FiniteOperands(t) =>
                                QEq(ApplyQuantity(f, t.rhs, t.lhs), t.res)
              /\ IsTemperatureLessDelta(t) =>
                    t.res = Temperature_from_kelvin(FSub(t.lhs.base, t.rhs.base))
    /\ Len(trace) >= 2 =>
          LET a == trace[1]
              s == trace[2]
          IN  ( /\ IsTemperatureSum(a) /\ FiniteOperands(a)
                /\ s.op = "Sub" /\ s.lhs = a.res
                /\ s.rhs \in {a.lhs, a.rhs} ) =>
                  /\ s.rhs = a.lhs => QEq(s.res, a.rhs)
                  /\ s.rhs = a.rhs => QEq(s.res, a.lhs)

C12_Witness ==
    /\ Len(trace) = 2
    /\ IsTemperatureSum(trace[1])
    /\ trace[1].by = "temperature_rev"
    /\ trace[1].lhs = TemperatureDelta_from_kelvin(Norm(25, 1))
    /\ trace[1].rhs = Temperature_from_celsius(Norm(75, 1))
    /\ trace[1].res = Temperature_from_celsius(Norm(100, 1))
    /\ IsTemperatureLessDelta(trace[2])
    /\ trace[2].rhs = trace[1].lhs
    /\ acc = trace[1].rhs

\* The operators that take an absolute Temperature, as (operator, left
\* type, right type, result type).
TemperatureSignatures ==
    { <<"Add", "Temperature", "TemperatureDelta", "Temperature">>,
      <<"Add", "TemperatureDelta", "Temperature", "Temperature">>,
      <<"Sub", "Temperature", "TemperatureDelta", "Temperature">>,
      <<"Sub", "Temperature", "Temperature", "TemperatureDelta">>,
      <<"Eq", "Temperature", "Temperature", "bool">>,
      <<"PartialCmp", "Temperature", "Temperature", "Ordering">> }

SignatureOf(e) == <<e.op, e.lhs, e.rhs, e.out>>

TemperatureImplsAreTheSignatures ==
    /\ { SignatureOf(e) :
           e \in { f \in QuantityOperators :
                     "Temperature" \in {f.lhs, f.rhs} } } = TemperatureSignatures
    /\ "Temperature" \in DisplayTypes
    /\ implement_measurement("TemperatureDelta") \subseteq QuantityOperators

\* C13: the operators with a Temperature operand are exactly
\* Temperature + Delta, Delta + Temperature, Temperature - Delta (each a
\* Temperature), Temperature - Temperature (a Delta), equality, ordering and
\* display: there is no Temperature + Temperature, no Delta - Temperature,
\* no scaling and no ratio of Temperatures.  So an expression that is a
\* Temperature or a Delta is a Temperature exactly when it contains one
\* more added than subtracted absolute Temperature and a Delta exactly when
\* it contains equally many; TemperatureDelta has every derived operator.
C13_TemperatureNotClosed ==
    /\ TemperatureImplsAreTheSignatures
    /\ \A i \in DOMAIN trace :
          LET t == trace[i]
          IN  "Temperature" \in {t.lhs.type, t.rhs.type} =>
                  <<t.op, t.lhs.type, t.rhs.type, t.res.type>>
                      \in TemperatureSignatures
    /\ acc.type = "Temperature" => AccDegree = 1
    /\ acc.type = "TemperatureDelta" => AccDegree = 0
    /\ (trace = <<>> /\ x.type = "Temperature" /\ y.type = "Temperature") =>
          /\ ~ENABLED TemperatureAdd
          /\ ~ENABLED GenericRatio
          /\ ENABLED TemperatureSub
    /\ (trace = <<>> /\ x.type = "TemperatureDelta" /\ y.type = "Temperature") =>
          \A e \in QuantityOperators :
              (e.lhs = x.type /\ e.rhs = y.type) => e.op = "Add"

C13_Witness ==
    /\ Len(trace) = 2
    /\ IsTemperatureDifference(trace[1])
    /\ trace[1].deg = 0
    /\ IsTemperatureSum(trace[2])
    /\ trace[2].rhs = trace[1].res
    /\ acc.type = "Temperature"
    /\ AccDegree = 1

-----------------------------------------------------------------------------
(* Properties of the operators implement_measurement! derives.             *)

IsDerived(t, op) == t.op = op /\ t.by \in {"derived", "derived_rev"}

\* The impl of QuantityOperators for an operator and two operand types.
ImplFor(op, lhs, rhs) ==
    { e \in QuantityOperators : e.op = op /\ e.lhs = lhs /\ e.rhs = rhs }

\* C14: for every type generated by implement_measurement! and all values
\* a, b of it: a + b is the value with base a.base + b.base, a - b the value
\* with base a.base - b.base, a + b == b + a, and a + b - b == a.
C14_AddSub ==
    /\ \A i \in DOMAIN trace :
          LET t == trace[i]
          IN  /\ IsDerived(t, "Add") =>
                    /\ t.res = from_base_units(t.lhs.type,
                                  FAdd(as_base_units(t.lhs), as_base_units(t.rhs)))
                    /\ \A e \in ImplFor("Add", t.rhs.type, t.lhs.type) :
                          /\ ApplyQuantity(e, t.rhs, t.lhs) = t.res
                          /\ FiniteOperands(t) =>
                                QEq(ApplyQuantity(e, t.rhs, t.lhs), t.res)
              /\ IsDerived(t, "Sub") =>
                    t.res = from_base_units(t.lhs.type,
                                FSub(as_base_units(t.lhs), as_base_units(t.rhs)))
    /\ Len(trace) >= 2 =>
          LET a == trace[1]
              s == trace[2]
          IN  ( /\ IsDerived(a, "Add") /\ FiniteOperands(a)
                /\ IsDerived(s, "Sub") /\ s.lhs = a.res /\ s.rhs = a.rhs ) =>
                  QEq(s.res, a.lhs)

C14_Witness ==
    /\ Len(trace) = 2
    /\ IsDerived(trace[1], "Add")
    /\ trace[1].lhs = TemperatureDelta_from_celsius(Norm(5, 1))
    /\ trace[1].rhs = TemperatureDelta_from_fahrenheit(Norm(180, 1))
    /\ trace[1].res = TemperatureDelta_from_kelvin(Norm(105, 1))
    /\ IsDerived(trace[2], "Sub")
    /\ trace[2].rhs = trace[1].rhs
    /\ acc = trace[1].lhs

IsRatio(t) == IsDerived(t, "Div") /\ t.lhs.type = t.rhs.type

\* a * s or s * a: the quantity and the scalar of a scaling.
ScaledQuantity(t) == IF t.lhs.type = "Scalar" THEN t.rhs ELSE t.lhs

ScaleFactor(t) == IF t.lhs.type = "Scalar" THEN t.lhs ELSE t.rhs

\* C15: dividing two values of the same quantity type gives a dimensionless
\* scalar equal to a.base / b.base, not a quantity; a / a == 1 for every
\* nonzero a, and (a * s) / a == s for every scalar s and nonzero a.
C15_Ratio ==
    /\ \A i \in DOMAIN trace :
          LET t == trace[i]
          IN  IsRatio(t) =>
                  /\ t.res = Scalar(FDiv(as_base_units(t.lhs), as_base_units(t.rhs)))
                  /\ (t.lhs = t.rhs /\ NonZero(t.lhs)) => FEq(t.res.base, One)
    /\ Len(trace) >= 2 =>
          LET m == trace[1]
              d == trace[2]
          IN  ( /\ IsDerived(m, "Mul")
                /\ IsRatio(d) /\ d.lhs = m.res /\ d.rhs = ScaledQuantity(m)
                /\ NonZero(d.rhs) ) =>
                  FEq(d.res.base, ScaleFactor(m).base)

C15_Witness ==
    /\ Len(trace) = 2
    /\ IsDerived(trace[1], "Mul")
    /\ trace[1].lhs = Torque_from_newton_metres(Norm(2, 1))
    /\ trace[1].rhs = Scalar(Norm(10, 1))
    /\ IsRatio(trace[2])
    /\ trace[2].lhs = Torque_from_newton_metres(Norm(20, 1))
    /\ trace[2].rhs = trace[1].lhs
    /\ acc = Scalar(Norm(10, 1))

IsScaleDiv(t) == IsDerived(t, "Div") /\ t.rhs.type = "Scalar"

\* C16: for every derived quantity a and scalar s, s * a == a * s, both the
\* value with base a.base x s, and for nonzero s, (a * s) / s == a.
C16_Scaling ==
    /\ \A i \in DOMAIN trace :
          LET t == trace[i]
          IN  IsDerived(t, "Mul") =>
                  /\ t.res = from_base_units(ScaledQuantity(t).type,
                                FMul(ScaledQuantity(t).base, ScaleFactor(t).base))
                  /\ ImplFor("Mul", t.rhs.type, t.lhs.type) # {}
                  /\ \A e \in ImplFor("Mul", t.rhs.type, t.lhs.type) :
                        /\ ApplyQuantity(e, t.rhs, t.lhs) = t.res
                        /\ FiniteOperands(t) =>
                              QEq(ApplyQuantity(e, t.rhs, t.lhs), t.res)
    /\ Len(trace) >= 2 =>
          LET m == trace[1]
              d == trace[2]
          IN  ( /\ IsDerived(m, "Mul") /\ FiniteOperands(m)
                /\ IsScaleDiv(d) /\ d.lhs = m.res /\ d.rhs = ScaleFactor(m)
                /\ NonZero(d.rhs) ) =>
                  QEq(d.res, ScaledQuantity(m))

C16_Witness ==
    /\ Len(trace) = 2
    /\ IsDerived(trace[1], "Mul")
    /\ trace[1].by = "derived_rev"
    /\ trace[1].lhs = Scalar(Norm(2, 1))
    /\ trace[1].rhs = TemperatureDelta_from_celsius(Norm(5, 1))
    /\ trace[1].res = TemperatureDelta_from_celsius(Norm(10, 1))
    /\ IsScaleDiv(trace[2])
    /\ trace[2].rhs = trace[1].lhs
    /\ acc = trace[1].rhs

-----------------------------------------------------------------------------
(* Properties of the comparisons.                                          *)

\* `a < b`, `a <= b`, `a > b` and `a >= b` of PartialOrd, from the result c
\* of partial_cmp.
OrdLt(c) == c = MinusOne

OrdLe(c) == c \in {MinusOne, Zero}

OrdGt(c) == c = One

OrdGe(c) == c \in {One, Zero}

\* Exactly one of the three holds.
ExactlyOne(p, q, r) ==
    /\ p \/ q \/ r
    /\ ~(p /\ q) /\ ~(p /\ r) /\ ~(q /\ r)

\* `a == b` for the operands of the comparison t.
OperandsEq(t) ==
    \E e \in ImplFor("Eq", t.lhs.type, t.rhs.type) :
        ApplyQuantity(e, t.lhs, t.rhs).base = One

\* C17: comparison of two values of the same quantity type is the
\* comparison of their base-unit values: a == b iff a.base == b.base, and
\* a < b, a <= b, a > b, a >= b iff the same holds of the base values; for
\* values that are not NaN exactly one of a < b, a == b, a > b holds, and
\* the comparison is incomparable only when a base value is NaN.  For the
\* macro-derived types and for Temperature and Humidity alike.
C17_Comparison ==
    \A i \in DOMAIN trace :
        LET t == trace[i]
            a == as_base_units(t.lhs)
            b == as_base_units(t.rhs)
            c == t.res.base
        IN  /\ t.op = "Eq" => (t.res.base = One <=> FEq(a, b))
            /\ t.op = "PartialCmp" =>
                  /\ OrdLt(c) <=> FLt(a, b)
                  /\ OrdLe(c) <=> FLe(a, b)
                  /\ OrdGt(c) <=> FLt(b, a)
                  /\ OrdGe(c) <=> FGe(a, b)
                  /\ (~IsNaN(a) /\ ~IsNaN(b)) =>
                        ExactlyOne(OrdLt(c), OperandsEq(t), OrdGt(c))
                  /\ c = NaN <=> (IsNaN(a) \/ IsNaN(b))

C17_Witness ==
    /\ Len(trace) = 2
    /\ trace[1].op = "Sub"
    /\ trace[1].lhs = Temperature_from_fahrenheit(Norm(212, 1))
    /\ trace[1].rhs = TemperatureDelta_from_kelvin(Zero)
    /\ trace[2].op = "PartialCmp" /\ trace[2].by = "temperature"
    /\ trace[2].rhs = Temperature_from_celsius(Norm(100, 1))
    /\ acc = [type |-> "Ordering", base |-> Zero]

-----------------------------------------------------------------------------
(* The conversions of a quantity: from a number in one of its units and    *)
(* back, into its base-unit value and back.                                *)

\* Conversions applied one after the other.
MaxConversions == 2

\* The types with an impl of Measurement<T> in the sources.
ContractTypes ==
    { "Torque", "Temperature", "TemperatureDelta", "Humidity", "Angle",
      "TorqueEnergy", "Duration" }

\* The (type, unit) pairs with a from_<unit> and an as_<unit>.
Units ==
    ({"Temperature", "TemperatureDelta"}
        \X {"kelvin", "celsius", "fahrenheit", "rankine"})
    \cup ({"Torque"} \X {"newton_metres", "pound_foot"})
    \cup ({"Humidity"} \X {"percent", "ratio"})
    \cup ({"Angle"} \X {"radians"})

\* Q::from_<unit>(n)
from_unit(u, n) ==
    CASE u = <<"Temperature", "kelvin">> -> Temperature_from_kelvin(n)
      [] u = <<"Temperature", "celsius">> -> Temperature_from_celsius(n)
      [] u = <<"Temperature", "fahrenheit">> -> Temperature_from_fahrenheit(n)
      [] u = <<"Temperature", "rankine">> -> Temperature_from_rankine(n)
      [] u = <<"TemperatureDelta", "kelvin">> -> TemperatureDelta_from_kelvin(n)
      [] u = <<"TemperatureDelta", "celsius">> -> TemperatureDelta_from_celsius(n)
      [] u = <<"TemperatureDelta", "fahrenheit">> -> TemperatureDelta_from_fahrenheit(n)
      [] u = <<"TemperatureDelta", "rankine">> -> TemperatureDelta_from_rankine(n)
      [] u = <<"Torque", "newton_metres">> -> Torque_from_newton_metres(n)
      [] u = <<"Torque", "pound_foot">> -> Torque_from_pound_foot(n)
      [] u = <<"Humidity", "percent">> -> Humidity_from_percent(n)
      [] u = <<"Humidity", "ratio">> -> Humidity_from_ratio(n)
      [] u = <<"Angle", "radians">> -> Angle_from_radians(n)

\* v.as_<unit>()
as_unit(u, v) ==
    CASE u = <<"Temperature", "kelvin">> -> Temperature_as_kelvin(v)
      [] u = <<"Temperature", "celsius">> -> Temperature_as_celsius(v)
      [] u = <<"Temperature", "fahrenheit">> -> Temperature_as_fahrenheit(v)
      [] u = <<"Temperature", "rankine">> -> Temperature_as_rankine(v)
      [] u = <<"TemperatureDelta", "kelvin">> -> TemperatureDelta_as_kelvin(v)
      [] u = <<"TemperatureDelta", "celsius">> -> TemperatureDelta_as_celsius(v)
      [] u = <<"TemperatureDelta", "fahrenheit">> -> TemperatureDelta_as_fahrenheit(v)
      [] u = <<"TemperatureDelta", "rankine">> -> TemperatureDelta_as_rankine(v)
      [] u = <<"Torque", "newton_metres">> -> Torque_as_newton_metres(v)
      [] u = <<"Torque", "pound_foot">> -> Torque_as_pound_foot(v)
      [] u = <<"Humidity", "percent">> -> Humidity_as_percent(v)
      [] u = <<"Humidity", "ratio">> -> Humidity_as_ratio(v)
      [] u = <<"Angle", "radians">> -> Angle_as_radians(v)

\* The numbers converted: zero, negative, fractional and large ones.
ConvertNumbers ==
    Scalars
    \cup { Norm(-40, 1), Norm(1, 10), Norm(100, 1), Norm(-2731, 10),
           Norm(4000, 1) }

\* Durations: the small ones, and the first whole number of seconds that
\* is no value of T.
ConvertDurations ==
    Durations
    \cup { [type |-> "Duration", secs |-> Pow2(MantissaBits) + 1, nanos |-> 0] }

ConvertInputs ==
    { Scalar(n) : n \in ConvertNumbers }
    \cup { from_base_units(t, n) :
             t \in ContractTypes \ {"Duration"}, n \in ConvertNumbers }
    \cup ConvertDurations

InitConvert ==
    /\ x \in ConvertInputs
    /\ y = NoValue
    /\ acc = x
    /\ trace = <<>>
    /\ measurement = Zero /\ list = <<>> /\ idx = 0 /\ pc = "idle" /\ ret = NoRet
    /\ val = <<>> /\ parsed = NoParse

\* The largest numerator of a number that is converted.
NumCap == 3000000

\* The model's integers hold the conversions of v: a Duration, or a number
\* n/d with |n| <= NumCap and d <= DenCap.
Held(v) ==
    IF v.type = "Duration" THEN TRUE
    ELSE Abs(v.base[1]) <= NumCap /\ v.base[2] <= DenCap

Converted(op, u, res) ==
    /\ pc = "idle"
    /\ Len(trace) < MaxConversions
    /\ acc' = res
    /\ trace' = Append(trace, [op |-> op, unit |-> u, arg |-> acc, res |-> res])
    /\ UNCHANGED <<x, y, pickVars, strVars>>

\* Q::from_<unit>(acc), for the numbers of ConvertNumbers.
FromUnit ==
    \E u \in Units :
        /\ acc.type = "Scalar"
        /\ acc.base \in ConvertNumbers
        /\ Held(acc)
        /\ Converted("from", u, from_unit(u, acc.base))

\* acc.as_<unit>()
AsUnit ==
    \E u \in Units :
        /\ acc.type = u[1]
        /\ Held(acc)
        /\ Converted("as", u, Scalar(as_unit(u, acc)))

\* Q::from_base_units(acc)
FromBaseUnits ==
    \E t \in ContractTypes :
        /\ acc.type = "Scalar"
        /\ Converted("from_base_units", <<t, "base">>, from_base_units(t, acc.base))

\* acc.as_base_units()
AsBaseUnits ==
    /\ acc.type \in ContractTypes
    /\ Converted("as_base_units", <<acc.type, "base">>, Scalar(as_base_units(acc)))

NextConvert == FromUnit \/ AsUnit \/ FromBaseUnits \/ AsBaseUnits

SpecConvert == InitConvert /\ [][NextConvert]_vars

-----------------------------------------------------------------------------
(* Properties of the conversions.                                          *)

\* v.as_base_units() followed by Q::from_base_units of the result, for the
\* type Q of v.
IsBaseRoundTrip(a, f) ==
    /\ a.op = "as_base_units"
    /\ f.op = "from_base_units"
    /\ f.unit[1] = a.arg.type
    /\ f.arg = a.res

\* C18: for every quantity type Q with an impl of Measurement (Torque,
\* Temperature, TemperatureDelta, Humidity, Angle, TorqueEnergy and the
\* time Duration) and every value v of Q,
\* Q::from_base_units(v.as_base_units()) == v, and as_base_units returns the
\* stored scalar of the types that store one.
C18_BaseUnitRoundTrip ==
    /\ \A i \in DOMAIN trace :
          LET t == trace[i]
          IN  (t.op = "as_base_units" /\ t.arg.type # "Duration") =>
                  t.res = Scalar(t.arg.base)
    /\ Len(trace) >= 2 =>
          (IsBaseRoundTrip(trace[1], trace[2]) => trace[2].res = trace[1].arg)

\* Q::from_<unit>(x) followed by as_<unit>() of the result.
IsUnitRoundTrip(f, a) ==
    /\ f.op = "from"
    /\ a.op = "as"
    /\ a.unit = f.unit
    /\ a.arg = f.res

\* C19: for every quantity type, every supported unit u and every number x
\* (zero, negative and large included), from_u(x).as_u() == x: Temperature and
\* TemperatureDelta in kelvin, celsius, fahrenheit and rankine, Torque in
\* newton-metres and pound-foot, Humidity as percent and ratio.
C19_UnitRoundTrip ==
    /\ \A u \in Units, n \in ConvertNumbers :
          FEq(as_unit(u, from_unit(u, n)), n)
    /\ Len(trace) >= 2 =>
          (IsUnitRoundTrip(trace[1], trace[2]) =>
              FEq(trace[2].res.base, trace[1].arg.base))

C19_Witness ==
    /\ Len(trace) = 2
    /\ IsUnitRoundTrip(trace[1], trace[2])
    /\ trace[1].unit = <<"Temperature", "fahrenheit">>
    /\ trace[1].arg = Scalar(Norm(-40, 1))
    /\ trace[1].res = Temperature_from_kelvin(Norm(23315, 100))
    /\ acc = Scalar(Norm(-40, 1))

-----------------------------------------------------------------------------
(* impl FromStr for Temperature<T>, src/src/temperature.rs:243-273.  A     *)
(* string is a sequence of characters; "deg" and the degree sign are one   *)
(* element each.                                                           *)

\* The longest string parsed.
MaxLen == 4

\* The characters the strings are made of.
Alphabet == { "-", "5", ".", " ", "deg", "degree_sign", "C", "f", "K", "x" }

Strings == UNION { [1..n -> Alphabet] : n \in 0..MaxLen }

\* The character classes of the regular expression: `\s`, `[0-9.]`,
\* `deg|\u{00B0}` and `[fckrFCKR]`.
Whitespace == { " " }

Digits == { "0", "1", "2", "3", "4", "5", "6", "7", "8", "9" }

NumberChars == Digits \cup { "." }

DegreeMarks == { "deg", "degree_sign" }

UnitLetters == { "f", "c", "k", "r", "F", "C", "K", "R" }

\* The first position from i on whose character is not of the class.
RECURSIVE SkipWhile(_, _, _)
SkipWhile(s, i, class) ==
    IF i <= Len(s) /\ s[i] \in class THEN SkipWhile(s, i + 1, class) ELSE i

\* The character at position k, "" past the end.
At(s, k) == IF k >= 1 /\ k <= Len(s) THEN s[k] ELSE ""

\* `([fckrFCKR]{1})\s*$` matches from position k.
UnitToEnd(s, k) ==
    /\ At(s, k) \in UnitLetters
    /\ SkipWhile(s, k + 1, Whitespace) = Len(s) + 1

\* `\s?([fckrFCKR]{1})\s*$`
SpaceUnitToEnd(s, k) ==
    \/ UnitToEnd(s, k)
    \/ At(s, k) \in Whitespace /\ UnitToEnd(s, k + 1)

\* `(deg|\u{00B0}|)?\s?([fckrFCKR]{1})\s*$`
MarkUnitToEnd(s, k) ==
    \/ SpaceUnitToEnd(s, k)
    \/ At(s, k) \in DegreeMarks /\ SpaceUnitToEnd(s, k + 1)

\* `\s?(deg|\u{00B0}|)?\s?([fckrFCKR]{1})\s*$`
AfterNumber(s, k) ==
    \/ MarkUnitToEnd(s, k)
    \/ At(s, k) \in Whitespace /\ MarkUnitToEnd(s, k + 1)

\* Where group 1 starts and where it ends when the match is tried from
\* position i: `\s*` and `[0-9.]*` take all they can, and no shorter take
\* lets the rest match.
NumberStart(s, i) == SkipWhile(s, i, Whitespace)

NumberEnd(s, i) == SkipWhile(s, NumberStart(s, i), NumberChars)

\* The whole expression matches from position i to the end of s.
MatchesFrom(s, i) == AfterNumber(s, NumberEnd(s, i))

\* The last character that is no whitespace: group 3 of a match.
RECURSIVE LastNonSpace(_, _)
LastNonSpace(s, k) ==
    IF k = 0 THEN ""
    ELSE IF s[k] \in Whitespace THEN LastNonSpace(s, k - 1) ELSE s[k]

NoCaptures == [matched |-> FALSE, float_val |-> <<>>, unit |-> ""]

\* re.captures(val): the expression is not anchored at its start, so the
\* match is the one that starts leftmost.
captures(s) ==
    LET starts == { i \in 1..Len(s) : MatchesFrom(s, i) }
    IN  IF starts = {} THEN NoCaptures
        ELSE LET i == CHOOSE j \in starts : \A k \in starts : j <= k
             IN  [matched |-> TRUE,
                  float_val |-> SubSeq(s, NumberStart(s, i), NumberEnd(s, i) - 1),
                  unit |-> LastNonSpace(s, Len(s))]

\* str::to_uppercase of a unit letter.
to_uppercase(c) ==
    CASE c = "f" -> "F"
      [] c = "c" -> "C"
      [] c = "k" -> "K"
      [] c = "r" -> "R"
      [] OTHER -> c

DigitValue(c) ==
    CASE c = "0" -> 0 [] c = "1" -> 1 [] c = "2" -> 2 [] c = "3" -> 3
      [] c = "4" -> 4 [] c = "5" -> 5 [] c = "6" -> 6 [] c = "7" -> 7
      [] c = "8" -> 8 [] c = "9" -> 9

\* The digits of s read as one decimal integer, the "." left out.
RECURSIVE DecimalDigits(_, _, _)
DecimalDigits(s, i, n) ==
    IF i > Len(s) THEN n
    ELSE IF s[i] = "." THEN DecimalDigits(s, i + 1, n)
    ELSE DecimalDigits(s, i + 1, 10 * n + DigitValue(s[i]))

RECURSIVE Pow10(_)
Pow10(k) == IF k = 0 THEN 1 ELSE 10 * Pow10(k - 1)

ParseError == [ok |-> FALSE, num |-> NaN]

\* str::parse::<T>(): an optional sign, then digits with at most one ".",
\* one digit at least; no whitespace and nothing else is accepted.
parse(s) ==
    LET signed == s # <<>> /\ s[1] \in {"-", "+"}
        digits == IF signed THEN SubSeq(s, 2, Len(s)) ELSE s
        dots == { i \in DOMAIN digits : digits[i] = "." }
        fraction == IF dots = {} THEN 0
                    ELSE Len(digits) - (CHOOSE i \in dots : TRUE)
        sign == IF signed /\ s[1] = "-" THEN -1 ELSE 1
    IN  IF /\ \A i \in DOMAIN digits : digits[i] \in NumberChars
           /\ Cardinality(dots) <= 1
           /\ \E i \in DOMAIN digits : digits[i] \in Digits
        THEN [ok |-> TRUE,
              num |-> Norm(sign * DecimalDigits(digits, 1, 0), Pow10(fraction))]
        ELSE ParseError

\* Ok(temperature) and Err(parse error).
Ok(t) == [ok |-> TRUE, value |-> t]

Err == [ok |-> FALSE, value |-> NoValue]

\* The constructor the unit letter selects (temperature.rs:262-266).
from_letter(letter, n) ==
    CASE letter = "F" -> Temperature_from_fahrenheit(n)
      [] letter = "C" -> Temperature_from_celsius(n)
      [] letter = "K" -> Temperature_from_kelvin(n)
      [] letter = "R" -> Temperature_from_rankine(n)

InitFromStr ==
    /\ val \in Strings
    /\ parsed = NoParse
    /\ pc = "from_str"
    /\ measurement = Zero /\ list = <<>> /\ idx = 0 /\ ret = NoRet
    /\ x = NoValue /\ y = NoValue /\ acc = NoValue /\ trace = <<>>

\* from_str returns r.
Returned(r) ==
    /\ pc = "from_str"
    /\ pc' = "returned"
    /\ parsed' = r
    /\ UNCHANGED <<val, measurement, list, idx, ret, algVars>>

\* if val.is_empty() { return Ok(Temperature::from_celsius(0.0)); }
EmptyDefault ==
    \E s \in {val} :
        /\ s = <<>>
        /\ Returned(Ok(Temperature_from_celsius(Zero)))

\* if let Some(caps) = re.captures(val) { ... }: the number captured is
\* parsed, `?` returns its error, and the unit letter selects the unit.
RegexMatch ==
    \E caps \in {captures(val)} :
        /\ val # <<>>
        /\ caps.matched
        /\ LET float_val == parse(caps.float_val)
           IN  IF float_val.ok
               THEN Returned(Ok(from_letter(to_uppercase(caps.unit), float_val.num)))
               ELSE Returned(Err)

\* Ok(Temperature::from_celsius(val.parse::<T>()?)): no match, the whole
\* string is a number of degrees Celsius or an error.
Fallback ==
    \E caps \in {captures(val)} :
        /\ val # <<>>
        /\ ~caps.matched
        /\ LET number == parse(val)
           IN  IF number.ok
               THEN Returned(Ok(Temperature_from_celsius(number.num)))
               ELSE Returned(Err)

NextFromStr == EmptyDefault \/ RegexMatch \/ Fallback

SpecFromStr == InitFromStr /\ [][NextFromStr]_vars

-----------------------------------------------------------------------------
(* Parsing property.                                                       *)

\* The end of the number literal that starts at position i: an optional sign
\* and the digits and "." after it.
LiteralEnd(s, i) ==
    SkipWhile(s, IF At(s, i) \in {"-", "+"} THEN i + 1 ELSE i, NumberChars)

\* What the text says: nothing (0 Celsius), a number (Celsius), or a number,
\* an optional "deg" or degree sign and a unit letter (that number in that
\* unit), with the spaces the expression allows; anything else is malformed.
Written(s) ==
    LET i == NumberStart(s, 1)
        k == LiteralEnd(s, i)
        number == parse(SubSeq(s, i, k - 1))
    IN  IF s = <<>> THEN Ok(Temperature_from_celsius(Zero))
        ELSE IF parse(s).ok THEN Ok(Temperature_from_celsius(parse(s).num))
        ELSE IF number.ok /\ AfterNumber(s, k)
             THEN Ok(from_letter(to_uppercase(LastNonSpace(s, Len(s))), number.num))
        ELSE Err

\* C20: Temperature::from_str returns Ok only for the empty string (0 Celsius),
\* a bare number (Celsius), or a number followed by an optional "deg" or
\* degree sign and one unit letter F, C, K or R in either case; every other
\* input, text with extra characters before the number included, is an Err,
\* and an Ok result carries the number written in the whole input, sign
\* included, in the unit written.
C20_ParseErrorsSurface ==
    (pc = "returned" /\ parsed.ok) => parsed = Written(val)

-----------------------------------------------------------------------------
(* The approximate-equality utility, src/src/test_utils.rs.  The call is   *)
(* (x, y, acc) = (a, b, d); trace records the call and what it returned.   *)

\* The largest magnitude of the values compared.
MaxMagnitude == 5

DEFAULT_DELTA == Norm(1, 100000)

\* fn abs(x): `if x > 0.0 { x } else { -x }`
test_utils_abs(v) == IF FLt(Zero, v) THEN v ELSE FNeg(v)

\* (abs(a - b) / a) < d
almost_eq_delta(u, v, d) == FLt(FDiv(test_utils_abs(FSub(u, v)), u), d)

almost_eq(u, v) == almost_eq_delta(u, v, DEFAULT_DELTA)

AlmostValues == { Norm(n, 1) : n \in (-MaxMagnitude)..MaxMagnitude }

Deltas == { DEFAULT_DELTA, Norm(1, 2), Norm(2, 1) }

InitAlmostEq ==
    /\ x \in { Scalar(u) : u \in AlmostValues }
    /\ y \in { Scalar(u) : u \in AlmostValues }
    /\ acc \in { Scalar(d) : d \in Deltas }
    /\ trace = <<>>
    /\ measurement = Zero /\ list = <<>> /\ idx = 0 /\ pc = "idle" /\ ret = NoRet
    /\ val = <<>> /\ parsed = NoParse

\* The call op(a, b, d) returns res, or panics when an assertion fails.
Called(op, d, res, panics) ==
    /\ pc = "idle"
    /\ pc' = IF panics THEN "panicked" ELSE "returned"
    /\ trace' = <<[op |-> op, a |-> x.base, b |-> y.base, d |-> d, res |-> res]>>
    /\ UNCHANGED <<x, y, acc, measurement, list, idx, ret, strVars>>

AlmostEq ==
    \E res \in {almost_eq(x.base, y.base)} :
        Called("almost_eq", DEFAULT_DELTA, res, FALSE)

AlmostEqDelta ==
    \E res \in {almost_eq_delta(x.base, y.base, acc.base)} :
        Called("almost_eq_delta", acc.base, res, FALSE)

\* assert_almost_eq(a, b)
AssertAlmostEq ==
    \E res \in {almost_eq_delta(x.base, y.base, DEFAULT_DELTA)} :
        Called("assert_almost_eq", DEFAULT_DELTA, res, ~res)

\* if !almost_eq_delta(a, b, d) { panic!(...) }
AssertAlmostEqDelta ==
    \E res \in {almost_eq_delta(x.base, y.base, acc.base)} :
        Called("assert_almost_eq_delta", acc.base, res, ~res)

NextAlmostEq == AlmostEq \/ AlmostEqDelta \/ AssertAlmostEq \/ AssertAlmostEqDelta

SpecAlmostEq == InitAlmostEq /\ [][NextAlmostEq]_vars

-----------------------------------------------------------------------------
(* Approximate-equality property.                                          *)

\* |a - b| < d x |a|
IsClose(u, v, d) == FLt(FAbs(FSub(u, v)), FMul(d, FAbs(u)))

\* C21: almost_eq_delta(a, b, d) returns true exactly when |a - b| < d x |a|,
\* for a of either sign: a pair that differs by more than the fraction d of
\* the input (a = -1, b = 5, d = 1e-5) is not accepted, and
\* assert_almost_eq_delta panics for such a pair and only for such a pair.
C21_AlmostEqIsClose ==
    trace # <<>> =>
        LET c == trace[1]
        IN  /\ c.res = IsClose(c.a, c.b, c.d)
            /\ c.op \in {"assert_almost_eq", "assert_almost_eq_delta"} =>
                  (pc = "panicked" <=> ~IsClose(c.a, c.b, c.d))

-----------------------------------------------------------------------------
(* Properties of the temperature units.                                    *)

\* The standard transform of k kelvin into the unit: k, k - 273.15,
\* k x 1.8 - 459.67 and k x 1.8.
StandardTransform(unit, k) ==
    CASE unit = "kelvin" -> k
      [] unit = "celsius" -> FSub(k, Norm(27315, 100))
      [] unit = "fahrenheit" -> FSub(FMul(k, Norm(18, 10)), Norm(45967, 100))
      [] unit = "rankine" -> FMul(k, Norm(18, 10))

\* A Temperature accessor applied to a Temperature.
IsTemperatureAccessor(t) ==
    t.op = "as" /\ t.unit[1] = "Temperature" /\ t.arg.type = "Temperature"

\* C22: the accessors of a Temperature of k kelvin are the standard affine
\* transforms: as_kelvin == k, as_celsius == k - 273.15, as_fahrenheit ==
\* (k - 273.15) x 1.8 + 32, as_rankine == k x 1.8; hence as_rankine -
\* as_fahrenheit == 459.67 and as_kelvin - as_celsius == 273.15 (arithmetic
\* on T taken as exact).
C22_AffineAccessors ==
    /\ \A i \in DOMAIN trace :
          IsTemperatureAccessor(trace[i]) =>
              trace[i].res = Scalar(StandardTransform(trace[i].unit[2], trace[i].arg.base))
    /\ (acc.type = "Temperature" /\ acc.base \in ConvertNumbers) =>
          /\ FSub(Temperature_as_rankine(acc), Temperature_as_fahrenheit(acc))
                = Norm(45967, 100)
          /\ FSub(Temperature_as_kelvin(acc), Temperature_as_celsius(acc))
                = Norm(27315, 100)

\* 100 K read in Fahrenheit is -279.67.
C22_Witness ==
    /\ Len(trace) = 2
    /\ trace[1].res = Temperature_from_kelvin(Norm(100, 1))
    /\ IsTemperatureAccessor(trace[2])
    /\ trace[2].unit[2] = "fahrenheit"
    /\ acc = Scalar(Norm(-27967, 100))

TemperatureUnits == { "kelvin", "celsius", "fahrenheit", "rankine" }

\* C23: the conversions of TemperatureDelta are the linear parts of those of
\* Temperature: in every unit u, Temperature::from_u(x) - Temperature::from_u(y)
\* == TemperatureDelta::from_u(x - y), and for Temperatures a and b,
\* (a - b).as_u() == a.as_u() - b.as_u() (arithmetic on T taken as exact).
C23_DeltaIsLinearPart ==
    \A i \in DOMAIN trace :
        LET t == trace[i]
        IN  (IsTemperatureDifference(t) /\ FiniteOperands(t)) =>
                \A u \in TemperatureUnits :
                    /\ \A cx, cy \in TemperatureNumbers :
                          ( /\ t.lhs = from_unit(<<"Temperature", u>>, cx)
                            /\ t.rhs = from_unit(<<"Temperature", u>>, cy) ) =>
                              t.res = from_unit(<<"TemperatureDelta", u>>, FSub(cx, cy))
                    /\ as_unit(<<"TemperatureDelta", u>>, t.res)
                          = FSub(as_unit(<<"Temperature", u>>, t.lhs),
                                 as_unit(<<"Temperature", u>>, t.rhs))

\* 212 F - 2 F is a delta of 210 Fahrenheit degrees.
C23_Witness ==
    /\ Len(trace) = 1
    /\ IsTemperatureDifference(trace[1])
    /\ trace[1].lhs = Temperature_from_fahrenheit(Norm(212, 1))
    /\ trace[1].rhs = Temperature_from_fahrenheit(Norm(2, 1))
    /\ acc = TemperatureDelta_from_fahrenheit(Norm(210, 1))
    /\ TemperatureDelta_as_fahrenheit(acc) = Norm(210, 1)

-----------------------------------------------------------------------------
(* Further properties of pick_appropriate_units.                           *)

\* The scale of the entry of l that is named unit.
ScaleOfUnit(l, unit) == l[CHOOSE i \in DOMAIN l : l[i].unit = unit].scale

\* C24: pick_appropriate_units preserves the quantity: on a non-empty table
\* with nonzero scales the returned (unit, value) satisfies value x (scale of
\* the returned unit) == base value, on the selection path and on the fallback
\* path, and the call leaves the measurement as it was (arithmetic on T taken
\* as exact).
C24_PickPreservesQuantity ==
    /\ [](pc = "returned" =>
            FMul(ret[2], ScaleOfUnit(list, ret[1])) = measurement)
    /\ [][measurement' = measurement]_vars

\* 1 kg against the table [(t, 1e3)]: no entry qualifies and the fallback
\* returns a thousandth of a tonne.
C24_Witness ==
    /\ pc = "returned"
    /\ idx = 0
    /\ Len(list) = 1
    /\ measurement = One
    /\ ret = <<"t", Norm(1, 1000)>>

\* pick_appropriate_units as a function of the base value and the list: the
\* loop from entry i down, then the fallback.
RECURSIVE PickFrom(_, _, _)
PickFrom(base, l, i) ==
    IF i = 0
    THEN <<l[FallbackIndex(l)].unit, Scaled(base, l[FallbackIndex(l)].scale)>>
    ELSE IF Qualifies(Scaled(base, l[i].scale))
         THEN <<l[i].unit, Scaled(base, l[i].scale)>>
         ELSE PickFrom(base, l, i - 1)

pick_appropriate_units(base, l) == PickFrom(base, l, Len(l))

\* C25: unit selection is monotone in magnitude: on a table with positive,
\* strictly increasing scales, a base value of smaller or equal magnitude
\* never selects a unit of larger scale; and when some entry qualifies, the
\* returned magnitude is at least 1 and smaller than the ratio of the next
\* larger entry's scale to the selected entry's scale, where there is a next
\* larger entry.
C25_SelectionMonotone ==
    (pc = "returned" /\ SortedPositive(list)) =>
        /\ ret = pick_appropriate_units(measurement, list)
        /\ \A v1 \in PickValues :
              FLe(FAbs(v1), FAbs(measurement)) =>
                  FLe(ScaleOfUnit(list, pick_appropriate_units(v1, list)[1]),
                      ScaleOfUnit(list, ret[1]))
        /\ QualifyingIdx(list, measurement) # {} =>
              /\ FGe(FAbs(ret[2]), One)
              /\ \A i \in DOMAIN list :
                    (list[i].unit = ret[1] /\ i < Len(list)) =>
                        FLt(FAbs(ret[2]), FDiv(list[i + 1].scale, list[i].scale))

\* 999.999 kg against [(g, 1e-3), (kg, 1), (t, 1e3)] selects kg, below the
\* ratio 1000 of tonne to kilogram.
C25_Witness ==
    /\ pc = "returned"
    /\ Len(list) = 3
    /\ SortedPositive(list)
    /\ measurement = Norm(999999, 1000)
    /\ ret = <<"kg", Norm(999999, 1000)>>
    /\ pick_appropriate_units(One, list)[1] = "kg"
    /\ pick_appropriate_units(Norm(999, 1000), list)[1] = "g"

====
